---- MODULE Spec2Model ----
(***************************************************************************)
(* Chunked acoustic-index computation and sharded storage engine of        *)
(* biophony-ai: the relational store (indices/database_manager.py), the    *)
(* named-index registry (indices/spectral_processor.py) and the sharded    *)
(* orchestrator (process_acoustic_indices.py).                             *)
(*                                                                         *)
(* The SQLite tables are bags of rows (a table with a UNIQUE constraint    *)
(* is a bag in which the write operations keep every key at most once).    *)
(* A file path is a record [dir, stem, ext]; ext is "WAV" for a recording  *)
(* and "NPZ" for its spectral container (the suffix "_spec.npz").          *)
(***************************************************************************)
EXTENDS Bags, FiniteSets, Integers, Sequences, TLC

VARIABLES
    audio_files,          \* table audio_files: set of rows
    core,                 \* table acoustic_indices_core: bag of rows
    index_configurations, \* table index_configurations: set of rows
    locks,                \* lock files currently held: path -> holder
    listing,              \* the sorted file listing on disk, with each file's properties
    wk,                   \* per worker process: position and locals of its run
    call                  \* the last library call made by a client, with its result

vars == <<audio_files, core, index_configurations, locks, listing, wk, call>>

\* SQL NULL / Python None, one per column type
NoId == 0
NoPath == [dir |-> "", stem |-> "", ext |-> ""]
NoType == "None"

----------------------------------------------------------------------------
(* Bounds of the model *)

MaxChunks == 2   \* longest value sequence a store call is given
MaxCalls == 2    \* store-level client calls in one behaviour
MaxListing == 12 \* longest file listing that is partitioned into shards
MaxFiles == 2    \* files in the listing the workers process
MaxRuns == 2     \* invocations of one worker in one behaviour

----------------------------------------------------------------------------
(* Paths and the audio_files table *)

Dirs == {"a", "b"}
Stems == {"x", "y"}
ProcessingTypes == {"temporal", "spectral"}

WavPath(d, s) == [dir |-> d, stem |-> s, ext |-> "WAV"]
NpzPath(d, s) == [dir |-> d, stem |-> s, ext |-> "NPZ"]
WavPaths == {WavPath(d, s) : d \in Dirs, s \in Stems}
NpzPaths == {NpzPath(d, s) : d \in Dirs, s \in Stems}

\* os.path.basename
Basename(p) == <<p.stem, p.ext>>

\* filepath.replace('_spec.npz', '.WAV')
DeriveWavFromNpz(p) == [p EXCEPT !.ext = "WAV"]

\* a row of audio_files as the scanner writes it; relative_path is NULL in a
\* table scanned without cross-platform support
AudioRow(i, p, rel) ==
    [id |-> i, filepath |-> p, filename |-> Basename(p),
     relative_path |-> IF rel THEN p ELSE NoPath,
     processing_status |-> NoType]

MinId(rows) == CHOOSE i \in {r.id : r \in rows} : \A r \in rows : i <= r.id

\* _get_file_id: by relative_path first, then by bare file name; fetchone()
\* takes the first row of the table scan
GetFileId(table, wav) ==
    LET byRel == {r \in table : r.relative_path = wav}
        byName == {r \in table : r.filename = Basename(wav)}
    IN  IF byRel # {} THEN MinId(byRel)
        ELSE IF byName # {} THEN MinId(byName)
        ELSE NoId

----------------------------------------------------------------------------
(* acoustic_indices_core *)

Row(fid, name, ci, ts, v, pt) ==
    [file_id |-> fid, index_name |-> name, chunk_index |-> ci,
     start_time_sec |-> ts, value |-> v, processing_type |-> pt]

\* UNIQUE(file_id, index_name, chunk_index)
SameKey(r, s) ==
    /\ r.file_id = s.file_id
    /\ r.index_name = s.index_name
    /\ r.chunk_index = s.chunk_index

RowCount(tbl) == BagCardinality(tbl)

Keep(tbl, P(_)) ==
    LET S == {r \in BagToSet(tbl) : P(r)}
    IN  [r \in S |-> tbl[r]]

\* a plain INSERT into a table without the UNIQUE constraint
InsertPlain(tbl, row) == tbl (+) SetToBag({row})

\* INSERT OR REPLACE of one row: the rows in conflict on the UNIQUE key are
\* deleted, then the row is inserted
InsertOrReplace(tbl, row) ==
    LET Other(r) == ~SameKey(r, row)
    IN  Keep(tbl, Other) (+) SetToBag({row})

\* executemany over rows_to_insert (a sequence)
RECURSIVE ExecuteMany(_, _)
ExecuteMany(tbl, rows) ==
    IF rows = <<>> THEN tbl
    ELSE ExecuteMany(InsertOrReplace(tbl, Head(rows)), Tail(rows))

\* the rows of a set in some order (rows_to_insert)
RECURSIVE SetToSeq(_)
SetToSeq(S) ==
    IF S = {} THEN <<>>
    ELSE LET r == CHOOSE x \in S : TRUE
         IN  <<r>> \o SetToSeq(S \ {r})

\* store_indices: the path whose audio_files row carries the values
StoreWavPath(filepath, pt) ==
    IF pt = "spectral" THEN DeriveWavFromNpz(filepath) ELSE filepath

\* store_indices: rows_to_insert, one row per index and chunk
RowsToInsert(fid, pt, data, ts) ==
    {Row(fid, nm, i - 1, ts[i], data[nm][i], pt) :
        nm \in DOMAIN data, i \in 1..Len(ts)}

\* a store that executes the rows of the indices whose lengths match and
\* commits them before it raises for the index that does not
StoreIndicesPartial(table, tbl, filepath, pt, data, ts) ==
    LET fid == GetFileId(table, StoreWavPath(filepath, pt))
        good == {nm \in DOMAIN data : Len(data[nm]) = Len(ts)}
        rows == RowsToInsert(fid, pt, [nm \in good |-> data[nm]], ts)
    IN  IF good # DOMAIN data
        THEN [status |-> "ValueError",
              core |-> IF fid = NoId THEN tbl ELSE ExecuteMany(tbl, SetToSeq(rows))]
        ELSE IF rows # {} /\ fid = NoId
        THEN [status |-> "IntegrityError", core |-> tbl]
        ELSE [status |-> "ok", core |-> ExecuteMany(tbl, SetToSeq(rows))]

\* store_indices as one transaction: [status, core]. A length mismatch raises
\* before anything is executed; a NULL file_id violates NOT NULL and the
\* uncommitted transaction is dropped with the connection.
StoreIndicesResult(table, tbl, filepath, pt, data, ts) ==
    LET fid == GetFileId(table, StoreWavPath(filepath, pt))
        rows == RowsToInsert(fid, pt, data, ts)
    IN  IF \E nm \in DOMAIN data : Len(data[nm]) # Len(ts)
        THEN [status |-> "ValueError", core |-> tbl]
        ELSE IF rows # {} /\ fid = NoId
        THEN [status |-> "IntegrityError", core |-> tbl]
        ELSE [status |-> "ok", core |-> ExecuteMany(tbl, SetToSeq(rows))]

----------------------------------------------------------------------------
(* Retrieval *)

\* the values of a set of rows in ascending chunk_index (ORDER BY chunk_index)
RECURSIVE ValuesByChunk(_)
ValuesByChunk(S) ==
    IF S = {} THEN <<>>
    ELSE LET r == CHOOSE x \in S : \A y \in S : x.chunk_index <= y.chunk_index
         IN  <<r.value>> \o ValuesByChunk(S \ {r})

\* grouping of a result set by index_name: index_name -> value sequence
GroupByIndex(S) ==
    [nm \in {r.index_name : r \in S} |->
        ValuesByChunk({r \in S : r.index_name = nm})]

\* the optional filters of both queries: no processing type (None) and no
\* index names (None or an empty list) select everything
Selected(tbl, pt, names) ==
    {r \in BagToSet(tbl) :
        /\ (pt # NoType => r.processing_type = pt)
        /\ (names # {} => r.index_name \in names)}

\* get_indices_for_file: the dict of one file (empty when the file is unknown)
GetIndicesForFile(table, tbl, filepath, pt, names) ==
    LET wav == IF pt = "spectral" /\ filepath.ext = "NPZ"
               THEN DeriveWavFromNpz(filepath) ELSE filepath
        fid == GetFileId(table, wav)
    IN  IF fid = NoId THEN <<>>
        ELSE GroupByIndex({r \in Selected(tbl, pt, names) : r.file_id = fid})

\* get_indices_for_files_bulk: wav path of a requested path
BulkWavPath(filepath, pt) ==
    IF pt = "spectral" /\ filepath.ext = "NPZ"
    THEN DeriveWavFromNpz(filepath) ELSE filepath

\* get_indices_for_files_bulk: path_mapping[wav], the last requested path
\* that has this wav path
PathMapping(file_paths, pt, wav) ==
    LET idx == {i \in 1..Len(file_paths) : BulkWavPath(file_paths[i], pt) = wav}
        last == CHOOSE i \in idx : \A j \in idx : j <= i
    IN  file_paths[last]

\* get_indices_for_files_bulk: requested path -> dict, for the files that
\* have rows; audio_files is matched on the exact filepath
GetIndicesForFilesBulk(table, tbl, file_paths, pt, names) ==
    LET wavs == {BulkWavPath(file_paths[i], pt) : i \in 1..Len(file_paths)}
        found == {r \in table : r.filepath \in wavs}
        hit == {a \in found :
                  \E r \in Selected(tbl, pt, names) : r.file_id = a.id}
        keys == {PathMapping(file_paths, pt, a.filepath) : a \in hit}
    IN  [k \in keys |->
            LET a == CHOOSE a \in hit : PathMapping(file_paths, pt, a.filepath) = k
            IN  GroupByIndex({r \in Selected(tbl, pt, names) : r.file_id = a.id})]

\* dict.get(key, {}) on a result of the bulk query
BulkGet(res, filepath) ==
    IF filepath \in DOMAIN res THEN res[filepath] ELSE <<>>

----------------------------------------------------------------------------
(* Clients of the store: the calls a test or a script makes on one          *)
(* DatabaseManager, one after the other                                     *)

IndexNames == {"i1", "i2"}
Values == {1, 2}

\* n equal values / the timestamps of n chunks of duration d
ConstSeq(n, v) == [i \in 1..n |-> v]
Timestamps(n, d) == [i \in 1..n |-> (i - 1) * d]

\* the audio_files tables a store can have: a table scanned without
\* relative paths in which two recorders produced the same file name, a table
\* with relative paths, and a table in which b/x is not registered
AudioTables ==
    { {AudioRow(1, WavPath("a", "x"), FALSE), AudioRow(2, WavPath("b", "x"), FALSE)},
      {AudioRow(1, WavPath("a", "x"), TRUE), AudioRow(2, WavPath("a", "y"), TRUE)},
      {AudioRow(1, WavPath("a", "x"), TRUE)} }

ClientWavs == {WavPath("a", "x"), WavPath("b", "x"), WavPath("a", "y")}

\* (filepath, processing_type) of a store call
StoreTargets ==
    {<<p, "temporal">> : p \in ClientWavs} \cup {<<NpzPath("a", "x"), "spectral">>}

\* (indices_data, chunk_timestamps) of a store call: one index, two indices,
\* two indices of which the second is one value short
StoreData ==
    {<<[nm \in {"i1"} |-> ConstSeq(n, v)], Timestamps(n, 1)>> :
        n \in 1..MaxChunks, v \in Values}
    \cup {<<[nm \in IndexNames |-> ConstSeq(n, 1)], Timestamps(n, 1)>> :
        n \in 1..MaxChunks}
    \cup {<<[nm \in IndexNames |-> ConstSeq(IF nm = "i1" THEN n ELSE n - 1, 1)],
            Timestamps(n, 1)>> : n \in 1..MaxChunks}

NoCall == [op |-> "none", n |-> 0]

InitCommon ==
    /\ core = EmptyBag
    /\ index_configurations = {}
    /\ locks = <<>>
    /\ wk = <<>>
    /\ call = NoCall

InitStore ==
    /\ audio_files \in AudioTables
    /\ listing = <<>>
    /\ InitCommon

\* db_manager.store_indices(filepath, processing_type, indices_data, chunk_timestamps)
StoreIndices(filepath, pt, data, ts) ==
    LET res == StoreIndicesResult(audio_files, core, filepath, pt, data, ts)
        again == /\ call.op = "store"
                 /\ call.status = "ok"
                 /\ <<call.filepath, call.pt, call.data, call.ts>> = <<filepath, pt, data, ts>>
    IN  /\ call.n < MaxCalls
        /\ core' = res.core
        /\ call' = [op |-> "store", n |-> call.n + 1,
                    filepath |-> filepath, pt |-> pt, data |-> data, ts |-> ts,
                    status |-> res.status,
                    before |-> RowCount(core), after |-> RowCount(res.core),
                    rep |-> IF again THEN 2 ELSE 1]
        /\ UNCHANGED <<audio_files, index_configurations, locks, listing, wk>>

\* the same two files asked for in one bulk query and in two single queries
GetIndices(f1, f2, pt) ==
    /\ call' = [op |-> "get", n |-> call.n, file_paths |-> <<f1, f2>>, pt |-> pt,
                bulk |-> GetIndicesForFilesBulk(audio_files, core, <<f1, f2>>, pt, {}),
                single |-> <<GetIndicesForFile(audio_files, core, f1, pt, {}),
                            GetIndicesForFile(audio_files, core, f2, pt, {})>>]
    /\ UNCHANGED <<audio_files, core, index_configurations, locks, listing, wk>>

NextStore ==
    \/ \E t \in StoreTargets, d \in StoreData : StoreIndices(t[1], t[2], d[1], d[2])
    \/ \E f1, f2 \in ClientWavs : GetIndices(f1, f2, "temporal")
    \/ \E f1, f2 \in {NpzPath("a", "x"), NpzPath("b", "x")} : GetIndices(f1, f2, "spectral")

SpecStore == InitStore /\ [][NextStore]_vars

----------------------------------------------------------------------------
(* Shard partitioning *)

\* the number of target subsets (i % 10, range(10))
ShardCount == 10

Range(seq) == {seq[i] : i \in 1..Len(seq)}

\* the loop of filter_files_by_target from position p (1-based; enumerate counts from 0)
RECURSIVE FilterFrom(_, _, _)
FilterFrom(files, target_indices, p) ==
    IF p > Len(files) THEN <<>>
    ELSE (IF ((p - 1) % ShardCount) \in target_indices THEN <<files[p]>> ELSE <<>>)
         \o FilterFrom(files, target_indices, p + 1)

\* the same loop without the modulo: only the listed positions are taken
FilterNoModulo(files, target_indices) ==
    LET keep == {p \in 1..Len(files) : (p - 1) \in target_indices}
    IN  [i \in 1..Cardinality(keep) |->
            files[CHOOSE p \in keep : Cardinality({q \in keep : q < p}) = i - 1]]

\* filter_files_by_target(files, target_indices)
FilterFilesByTarget(files, target_indices) == FilterFrom(files, target_indices, 1)

\* main: target_indices = args.target if args.target else list(range(10))
TargetIndices(target) == IF target = {} THEN 0..(ShardCount - 1) ELSE target

\* the --target arguments given to worker invocations
TargetArgs ==
    {{k} : k \in 0..(ShardCount - 1)}
    \cup {{}, {0, 1, 2}, {3, 4, 5, 6, 7, 8, 9}, {0, 5}, {1, 5}}

\* a sorted listing of L distinct files; a file is named by its rank
InitShard ==
    /\ audio_files = {}
    /\ InitCommon
    /\ \E L \in 0..MaxListing : listing = [i \in 1..L |-> i]

\* the ten single-shard selections of one listing
FilterEachShard ==
    /\ call' = [op |-> "shards", n |-> 0,
                parts |-> [k \in 0..(ShardCount - 1) |-> FilterFilesByTarget(listing, {k})]]
    /\ UNCHANGED <<audio_files, core, index_configurations, locks, listing, wk>>

\* two worker invocations over the same listing
InvokeWorkers(t1, t2) ==
    /\ call' = [op |-> "workers", n |-> 0,
                targets |-> <<TargetIndices(t1), TargetIndices(t2)>>,
                files |-> <<FilterFilesByTarget(listing, TargetIndices(t1)),
                           FilterFilesByTarget(listing, TargetIndices(t2))>>]
    /\ UNCHANGED <<audio_files, core, index_configurations, locks, listing, wk>>

NextShard ==
    \/ FilterEachShard
    \/ \E t1, t2 \in TargetArgs : InvokeWorkers(t1, t2)

SpecShard == InitShard /\ [][NextShard]_vars

----------------------------------------------------------------------------
(* Named-index registry: persistence names. A string is the sequence of    *)
(* its characters.                                                         *)

DigitChars == <<"0", "1", "2", "3", "4", "5", "6", "7", "8", "9">>

\* str(int(n)) for n >= 0
RECURSIVE IntToStr(_)
IntToStr(n) ==
    IF n < 10 THEN <<DigitChars[n + 1]>>
    ELSE IntToStr(n \div 10) \o <<DigitChars[(n % 10) + 1]>>

\* pat in s
Contains(s, pat) ==
    \E i \in 0..(Len(s) - Len(pat)) : SubSeq(s, i + 1, i + Len(pat)) = pat

\* params.get(key, default)
ParamGet(params, key, default) ==
    IF key \in DOMAIN params THEN params[key] ELSE default

FreqDependentProcessors == {"bioacoustics_index", "soundscape_index"}

\* the band _generate_database_name resolves from params
NameFreqMin(params) ==
    ParamGet(params, "freq_min", ParamGet(params, "bioacoustic_freq_min", 0))
NameFreqMax(params) ==
    ParamGet(params, "freq_max", ParamGet(params, "bioacoustic_freq_max", 0))

\* f"{int(freq_min)}-{int(freq_max)}"
FreqPattern(fmin, fmax) == IntToStr(fmin) \o <<"-">> \o IntToStr(fmax)

\* _generate_database_name; "if freq_min and freq_max" is false for 0
GenerateDatabaseName(cosmetic_name, processor_name, params) ==
    IF /\ processor_name \in FreqDependentProcessors
       /\ NameFreqMin(params) # 0
       /\ NameFreqMax(params) # 0
    THEN IF Contains(cosmetic_name, FreqPattern(NameFreqMin(params), NameFreqMax(params)))
         THEN cosmetic_name
         ELSE cosmetic_name \o <<"_">> \o FreqPattern(NameFreqMin(params), NameFreqMax(params))
    ELSE cosmetic_name

\* configuration entries of the spectral section: cosmetic names, processors, bands
CosmeticNames ==
    { <<"b">>, <<"c">>,
      <<"b", "_", "5", "0", "0", "-", "2", "0", "0", "0">> }
Processors == FreqDependentProcessors \cup {"acoustic_complexity_index"}
Freqs == {0, 500, 2000, 8000}
BandParams ==
    {[k \in {"freq_min", "freq_max"} |-> IF k = "freq_min" THEN lo ELSE hi] :
        lo \in Freqs, hi \in Freqs}
    \cup {[k \in {"bioacoustic_freq_min", "bioacoustic_freq_max"} |->
              IF k = "bioacoustic_freq_min" THEN lo ELSE hi] : lo \in Freqs, hi \in Freqs}
    \cup {[k \in {"freq_max"} |-> hi] : hi \in Freqs}
    \cup {<<>>}

\* the band an entry is configured with (an absent bound is None)
NoFreq == 0 - 1
ConfiguredBand(params) ==
    <<ParamGet(params, "freq_min", ParamGet(params, "bioacoustic_freq_min", NoFreq)),
      ParamGet(params, "freq_max", ParamGet(params, "bioacoustic_freq_max", NoFreq))>>

\* a configuration with two entries of different cosmetic names that use the
\* same processor
InitName ==
    /\ audio_files = {}
    /\ listing = <<>>
    /\ core = EmptyBag
    /\ index_configurations = {}
    /\ locks = <<>>
    /\ wk = <<>>
    /\ \E n1, n2 \in CosmeticNames, pr \in Processors, p1, p2 \in BandParams :
          /\ n1 # n2
          /\ call = [op |-> "config", n |-> 0, processor |-> pr,
                     cosmetic |-> <<n1, n2>>, params |-> <<p1, p2>>]

\* process_file, named format: the persistence names of the two entries
ResolveEntries ==
    /\ call.op = "config"
    /\ call' = [op |-> "names", n |-> 0, processor |-> call.processor,
                cosmetic |-> call.cosmetic, params |-> call.params,
                db_name |-> <<GenerateDatabaseName(call.cosmetic[1], call.processor,
                                                   call.params[1]),
                             GenerateDatabaseName(call.cosmetic[2], call.processor,
                                                  call.params[2])>>]
    /\ UNCHANGED <<audio_files, core, index_configurations, locks, listing, wk>>

NextName == ResolveEntries

SpecName == InitName /\ [][NextName]_vars

----------------------------------------------------------------------------
(* Processors: the chunk grid of a file. Durations are in seconds and the  *)
(* recordings have one sample per second.                                  *)

\* config: sample_rate, file_duration_sec, acoustic_indices.<type>.chunk_duration_sec
SampleRate == 1
FileDurationSec == 4
ChunkDurationSec == 2

\* tolerance_sec = 2.0
ToleranceSec == 2

\* _setup_from_config
SamplesPerChunk == SampleRate * ChunkDurationSec
NChunks == FileDurationSec \div ChunkDurationSec

Abs(x) == IF x < 0 THEN 0 - x ELSE x
Min(a, b) == IF a < b THEN a ELSE b

\* TemporalIndicesProcessor.process_file on a recording: it raises (missing
\* file, sample-rate mismatch), returns the skip marker, or computes
\* min(n_chunks, len(audio) // samples_per_chunk) values per index
TemporalProcessFile(file) ==
    IF file.bad THEN [kind |-> "raise", chunks |-> 0]
    ELSE IF Abs(file.dur - FileDurationSec) > ToleranceSec
    THEN [kind |-> "skipped", chunks |-> 0]
    ELSE [kind |-> "data",
          chunks |-> Min(NChunks, (file.dur * SampleRate) \div SamplesPerChunk)]

\* SpectralIndicesProcessor.process_file on a container: it raises (missing
\* file, missing array) or computes n_chunks values per index
SpectralProcessFile(file) ==
    IF file.bad THEN [kind |-> "raise", chunks |-> 0]
    ELSE [kind |-> "data", chunks |-> NChunks]

\* the configuration file of the invocation names a processor that
\* _compute_single_named_index does not know (call holds the configuration
\* where a behaviour starts from one)
UnknownProcessor == call.op = "run_config" /\ ~call.known

\* processor.process_file: with an unknown processor the first chunk of the
\* first index raises ValueError("Unsupported ... processor")
ProcessFile(file, pt) ==
    LET res == IF pt = "temporal" THEN TemporalProcessFile(file)
               ELSE SpectralProcessFile(file)
    IN  IF res.kind = "data" /\ res.chunks > 0 /\ UnknownProcessor
        THEN [kind |-> "raise", chunks |-> 0]
        ELSE res

\* the names process_file returns values for (get_enabled_indices / expected_indices)
ExpectedIndices(pt) == IF pt = "temporal" THEN {"i1"} ELSE {"i2"}

\* timestamps of the configured chunk count whatever file was processed
ChunkTimestampsConfigured(pt, last_chunks) == Timestamps(NChunks, ChunkDurationSec)

\* get_chunk_timestamps(): the temporal processor uses the chunk count of the
\* file it processed last (0: none yet), the spectral one always n_chunks
ChunkTimestamps(pt, last_chunks) ==
    IF pt = "temporal" /\ last_chunks # 0
    THEN Timestamps(last_chunks, ChunkDurationSec)
    ELSE Timestamps(NChunks, ChunkDurationSec)

----------------------------------------------------------------------------
(* Sharded orchestrator: worker processes *)

Workers == {1, 2}

\* the recordings on disk, in sorted order: a full-length file, a shorter one
\* within tolerance, one outside tolerance, one that cannot be loaded
OrchStems == <<"f1", "f2", "f3", "f4">>
FileKinds ==
    {[dur |-> d, bad |-> FALSE] : d \in {FileDurationSec, FileDurationSec - 1,
                                        FileDurationSec + ToleranceSec + 1}}
    \cup {[dur |-> FileDurationSec, bad |-> TRUE]}

DiskFile(k, kind) ==
    [wav |-> WavPath("a", OrchStems[k]), dur |-> kind.dur, bad |-> kind.bad]

\* the path a worker of a domain handles for the k-th recording
FilePath(k, pt) ==
    IF pt = "temporal" THEN listing[k].wav
    ELSE NpzPath(listing[k].wav.dir, listing[k].wav.stem)

\* index_configurations rows of the configuration file every worker loads
\* (UNIQUE(config_name, index_name, config_hash))
ConfigRows ==
    {[config_name |-> "config.yaml", index_name |-> nm, config_hash |-> nm] :
        nm \in ExpectedIndices("temporal") \cup ExpectedIndices("spectral")}

\* store_index_configuration: INSERT OR IGNORE of every named entry
StoreIndexConfiguration(registry) == registry \cup ConfigRows

IdleWorker ==
    [pc |-> "idle", run |-> 0, pt |-> "temporal", force |-> FALSE, dry_run |-> FALSE,
     files |-> <<>>, i |-> 0, preload |-> {},
     created |-> 0, exists |-> 0, errors |-> 0, outcomes |-> <<>>,
     chunks |-> 0, last_chunks |-> 0, snap |-> EmptyBag, killed_at |-> 0,
     locked_before |-> {}]

\* the file a worker is at
CurFile(w) == wk[w].files[wk[w].i]
CurPath(w) == FilePath(CurFile(w), wk[w].pt)
AtFile(w) == wk[w].i >= 1 /\ wk[w].i <= Len(wk[w].files)

\* a lock that is always found free
LockIgnored(lk, path) == TRUE
\* FileLock(lock_path, timeout=0): the lock file can be taken at once
LockFree(lk, path) == \A l \in lk : l[1] # path

\* a lock that stays held when the with-block is left
ReleaseNever(lk, w) == lk
\* the with-block is left (normally, by continue or by an exception): the
\* locks of the worker are released
Release(lk, w) == {l \in lk : l[2] # w}

\* the rows of one recording in one domain
FileRows(tbl, fid, pt) ==
    LET Mine(r) == r.file_id = fid /\ r.processing_type = pt
    IN  Keep(tbl, Mine)

\* file_id of the k-th recording
FileId(k) == GetFileId(audio_files, listing[k].wav)

\* `if existing_indices and not force` on the preloaded result
AlreadyProcessedIgnoringForce(w) == CurPath(w) \in wk[w].preload
AlreadyProcessed(w) == CurPath(w) \in wk[w].preload /\ ~wk[w].force

\* what other connections (and the file on disk) see of a transaction that
\* has executed its statements and not committed
VisibleAutocommit(tbl, txn) == txn
VisibleBeforeCommit(tbl, txn) == tbl

\* indices_data and chunk_timestamps of the file a worker has processed; the
\* value of an index is a function of the recording
ComputedData(w) ==
    [nm \in ExpectedIndices(wk[w].pt) |->
        ConstSeq(wk[w].chunks, listing[CurFile(w)].dur)]
ComputedStore(w) ==
    StoreIndicesResult(audio_files, core, CurPath(w), wk[w].pt, ComputedData(w),
                       ChunkTimestamps(wk[w].pt, wk[w].last_chunks))

\* the loop goes on with the next file; the with-block has released the lock
NextFile(w, outcome) ==
    [wk[w] EXCEPT !.pc = "loop", !.i = @ + 1, !.chunks = 0, !.snap = EmptyBag,
                  !.outcomes = Append(@, outcome)]

OrchTargets == {{}, {1}}

Init ==
    /\ \E n \in 1..MaxFiles : \E kinds \in [1..n -> FileKinds] :
          listing = [k \in 1..n |-> DiskFile(k, kinds[k])]
    /\ audio_files = {AudioRow(k, listing[k].wav, TRUE) : k \in 1..Len(listing)}
    /\ core = EmptyBag
    /\ index_configurations = {}
    /\ locks = {}
    /\ wk = [w \in Workers |-> IdleWorker]
    /\ call = NoCall

\* main(): the files of the domain are listed and filtered to the shard;
\* the locals of the invocation that begins
MainLocals(w, pt, target, force, dry_run) ==
    LET files == FilterFilesByTarget([k \in 1..Len(listing) |-> k], TargetIndices(target))
    IN  [IdleWorker EXCEPT !.pc = IF files = <<>> THEN "done" ELSE "loaded",
                           !.run = wk[w].run + 1, !.pt = pt,
                           !.force = force, !.dry_run = dry_run,
                           !.files = files,
                           !.killed_at = wk[w].killed_at]

\* main(): load_config registers the configuration, then the run begins;
\* with no file in the shard the run is over
Main(w, pt, target, force, dry_run) ==
    /\ wk[w].pc \in {"idle", "done", "aborted", "killed"}
    /\ index_configurations' = StoreIndexConfiguration(index_configurations)
    /\ wk' = [wk EXCEPT ![w] = MainLocals(w, pt, target, force, dry_run)]
    /\ UNCHANGED <<audio_files, core, locks, listing, call>>

StartRun(w, pt, target, force, dry_run) ==
    /\ wk[w].run < MaxRuns
    /\ Main(w, pt, target, force, dry_run)

\* process_*_files: bulk preload of the existing indices of the shard
Preload(w) ==
    LET paths == [j \in 1..Len(wk[w].files) |-> FilePath(wk[w].files[j], wk[w].pt)]
        res == GetIndicesForFilesBulk(audio_files, core, paths, wk[w].pt,
                                      ExpectedIndices(wk[w].pt))
    IN  /\ wk[w].pc = "loaded"
        /\ wk' = [wk EXCEPT ![w] = [@ EXCEPT !.pc = "loop", !.i = 1,
                                             !.preload = DOMAIN res]]
        /\ UNCHANGED <<audio_files, core, index_configurations, locks, listing, call>>

\* except Timeout: the file is reported as locked and the loop continues
LockTimeout(w) ==
    /\ wk[w].pc = "loop" /\ AtFile(w)
    /\ ~LockFree(locks, CurPath(w))
    /\ wk' = [wk EXCEPT ![w] = NextFile(w, "locked")]
    /\ UNCHANGED <<audio_files, core, index_configurations, locks, listing, call>>

\* with FileLock(lock_path, timeout=0): the lock is taken
Acquire(w) ==
    /\ wk[w].pc = "loop" /\ AtFile(w)
    /\ LockFree(locks, CurPath(w))
    /\ locks' = locks \cup {<<CurPath(w), w>>}
    /\ wk' = [wk EXCEPT ![w] = [@ EXCEPT !.pc = "held",
                   !.snap = FileRows(core, FileId(CurFile(w)), wk[w].pt)]]
    /\ UNCHANGED <<audio_files, core, index_configurations, listing, call>>

\* the preloaded result has the file and force is off
DecideExists(w) ==
    /\ wk[w].pc = "held"
    /\ AlreadyProcessed(w)
    /\ wk' = [wk EXCEPT ![w] = [NextFile(w, "exists") EXCEPT !.exists = @ + 1]]
    /\ locks' = Release(locks, w)
    /\ UNCHANGED <<audio_files, core, index_configurations, listing, call>>

\* dry run: the file is counted as created and nothing is computed
DecideDryRun(w) ==
    /\ wk[w].pc = "held"
    /\ ~AlreadyProcessed(w)
    /\ wk[w].dry_run
    /\ wk' = [wk EXCEPT ![w] = [NextFile(w, "would_create") EXCEPT !.created = @ + 1]]
    /\ locks' = Release(locks, w)
    /\ UNCHANGED <<audio_files, core, index_configurations, listing, call>>

Processing(w) == wk[w].pc = "held" /\ ~AlreadyProcessed(w) /\ ~wk[w].dry_run

\* process_file raises: nothing catches it, the exception leaves the lock
\* block, the loop and main()
ProcessRaises(w) ==
    /\ Processing(w)
    /\ ProcessFile(listing[CurFile(w)], wk[w].pt).kind = "raise"
    /\ wk' = [wk EXCEPT ![w] = [@ EXCEPT !.pc = "aborted", !.snap = EmptyBag]]
    /\ locks' = Release(locks, w)
    /\ UNCHANGED <<audio_files, core, index_configurations, listing, call>>

\* process_file returns the skip marker: counted under errors, the
\* audio_files row is marked, the loop continues
ProcessSkipped(w) ==
    /\ Processing(w)
    /\ ProcessFile(listing[CurFile(w)], wk[w].pt).kind = "skipped"
    /\ wk' = [wk EXCEPT ![w] = [NextFile(w, "skipped") EXCEPT !.errors = @ + 1]]
    /\ audio_files' = {IF a.filepath = CurPath(w)
                       THEN [a EXCEPT !.processing_status = "skipped"] ELSE a :
                          a \in audio_files}
    /\ locks' = Release(locks, w)
    /\ UNCHANGED <<core, index_configurations, listing, call>>

\* process_file returns the values of the file
ProcessComputed(w) ==
    LET res == ProcessFile(listing[CurFile(w)], wk[w].pt)
    IN  /\ Processing(w)
        /\ res.kind = "data"
        /\ wk' = [wk EXCEPT ![w] = [@ EXCEPT !.pc = "store", !.chunks = res.chunks,
                       !.last_chunks = IF wk[w].pt = "temporal" THEN res.chunks ELSE @]]
        /\ UNCHANGED <<audio_files, core, index_configurations, locks, listing, call>>

\* store_indices up to executemany: the statements run in a transaction of
\* this connection; a connection that is writing makes the others wait
Execute(w) ==
    LET res == ComputedStore(w)
    IN  /\ wk[w].pc = "store"
        /\ \A v \in Workers : wk[v].pc # "commit"
        /\ res.status = "ok"
        /\ core' = VisibleBeforeCommit(core, res.core)
        /\ wk' = [wk EXCEPT ![w] = [@ EXCEPT !.pc = "commit"]]
        /\ UNCHANGED <<audio_files, index_configurations, locks, listing, call>>

\* store_indices raises (length mismatch, integrity error, database busy or
\* unreadable): nothing is committed and nothing catches the exception
StoreRaises(w) ==
    /\ wk[w].pc = "store"
    /\ wk' = [wk EXCEPT ![w] = [@ EXCEPT !.pc = "aborted", !.snap = EmptyBag]]
    /\ locks' = Release(locks, w)
    /\ UNCHANGED <<audio_files, core, index_configurations, listing, call>>

\* conn.commit(), then created += 1 and the lock block is left
Commit(w) ==
    /\ wk[w].pc = "commit"
    /\ core' = ComputedStore(w).core
    /\ wk' = [wk EXCEPT ![w] = [NextFile(w, "created") EXCEPT !.created = @ + 1]]
    /\ locks' = Release(locks, w)
    /\ UNCHANGED <<audio_files, index_configurations, listing, call>>

\* the loop is through: return created, exists, errors
FinishRun(w) ==
    /\ wk[w].pc = "loop" /\ ~AtFile(w)
    /\ wk' = [wk EXCEPT ![w] = [@ EXCEPT !.pc = "done"]]
    /\ UNCHANGED <<audio_files, core, index_configurations, locks, listing, call>>

\* the worker process is killed: its open transaction is rolled back and the
\* operating system drops its file lock (killed_at remembers the file it was
\* in the middle of)
Kill(w) ==
    /\ wk[w].pc \in {"loaded", "loop", "held", "store", "commit"}
    /\ wk' = [wk EXCEPT ![w] = [@ EXCEPT !.pc = "killed",
                   !.killed_at = IF wk[w].pc \in {"held", "store", "commit"}
                                 THEN CurFile(w) ELSE @]]
    /\ locks' = Release(locks, w)
    /\ UNCHANGED <<audio_files, core, index_configurations, listing, call>>

\* one worker run after run on its own: every domain, shard and flag
Solo == CHOOSE w \in Workers : \A v \in Workers : w <= v

NextSolo ==
    \/ \E pt \in ProcessingTypes, target \in OrchTargets, force \in BOOLEAN,
          dry_run \in BOOLEAN : StartRun(Solo, pt, target, force, dry_run)
    \/ Preload(Solo)
    \/ Acquire(Solo)
    \/ DecideExists(Solo)
    \/ DecideDryRun(Solo)
    \/ ProcessRaises(Solo)
    \/ ProcessSkipped(Solo)
    \/ ProcessComputed(Solo)
    \/ Execute(Solo)
    \/ StoreRaises(Solo)
    \/ Commit(Solo)
    \/ FinishRun(Solo)
    \/ Kill(Solo)

SpecSolo == Init /\ [][NextSolo]_vars

\* a valid recording of the configured length
FullKind == [dur |-> FileDurationSec, bad |-> FALSE]

\* two workers started on the same directory of valid full-length
\* recordings, in the same domain, each on the whole listing
InitPair ==
    /\ \E n \in 1..MaxFiles : listing = [k \in 1..n |-> DiskFile(k, FullKind)]
    /\ audio_files = {AudioRow(k, listing[k].wav, TRUE) : k \in 1..Len(listing)}
    /\ core = EmptyBag
    /\ index_configurations = {}
    /\ locks = {}
    /\ \E pt \in ProcessingTypes : wk = [w \in Workers |-> [IdleWorker EXCEPT !.pt = pt]]
    /\ call = NoCall

NextPair ==
    \E w \in Workers :
        \/ \E force \in BOOLEAN : StartRun(w, wk[w].pt, {}, force, FALSE)
        \/ Preload(w)
        \/ LockTimeout(w)
        \/ Acquire(w)
        \/ DecideExists(w)
        \/ ProcessComputed(w)
        \/ Execute(w)
        \/ Commit(w)
        \/ FinishRun(w)

SpecPair == InitPair /\ [][NextPair]_vars


\* the three invocations of the end-to-end scenario: plain, plain, --force;
\* worker 1 runs them on the recordings, worker 2 on the containers
E2EForce == <<FALSE, FALSE, TRUE>>

InitE2E ==
    /\ \E n \in 1..MaxFiles : listing = [k \in 1..n |-> DiskFile(k, FullKind)]
    /\ audio_files = {AudioRow(k, listing[k].wav, TRUE) : k \in 1..Len(listing)}
    /\ core = EmptyBag
    /\ index_configurations = {}
    /\ locks = {}
    /\ wk = [w \in Workers |->
               [IdleWorker EXCEPT !.pt = IF w = 1 THEN "temporal" ELSE "spectral"]]
    /\ call = NoCall

StartE2E(w) ==
    /\ wk[w].run < Len(E2EForce)
    /\ Main(w, wk[w].pt, {}, E2EForce[wk[w].run + 1], FALSE)

NextE2E ==
    \E w \in Workers :
        \/ StartE2E(w)
        \/ Preload(w)
        \/ Acquire(w)
        \/ DecideExists(w)
        \/ ProcessComputed(w)
        \/ Execute(w)
        \/ Commit(w)
        \/ FinishRun(w)

SpecE2E == InitE2E /\ [][NextE2E]_vars

----------------------------------------------------------------------------
(* C1: after a successful store_indices every key of the call is stored    *)
(* exactly once, with the values of the call, and a second call with the   *)
(* same arguments leaves the row count where the first call left it.       *)

CallRows ==
    RowsToInsert(GetFileId(audio_files, StoreWavPath(call.filepath, call.pt)),
                 call.pt, call.data, call.ts)

C1_StoreTwiceOneRowPerKey ==
    (call.op = "store" /\ call.status = "ok") =>
        /\ call.rep = 2 => call.after = call.before
        /\ \A row \in CallRows :
              /\ CopiesIn(row, core) = 1
              /\ \A r \in BagToSet(core) : SameKey(r, row) => r = row

C1_Witness ==
    /\ call.op = "store"
    /\ call.status = "ok"
    /\ call.rep = 2
    /\ call.after = Len(call.ts) * Cardinality(DOMAIN call.data)
    /\ call.after > 1

----------------------------------------------------------------------------
(* C9: the bulk query returns, for each of the two files asked for, the    *)
(* index names and value sequences that get_indices_for_file returns for   *)
(* that file alone (a file without stored values being empty in both).     *)

C9_BulkEqualsSingle ==
    call.op = "get" =>
        \A i \in 1..2 : BulkGet(call.bulk, call.file_paths[i]) = call.single[i]

----------------------------------------------------------------------------
(* C3: the ten single-shard selections partition the listing (the file at  *)
(* position i is in shard i mod 10 and in no other, each file once), and   *)
(* two workers given disjoint target subsets share no file.                *)

C3_ShardsPartitionListing ==
    /\ call.op = "shards" =>
          /\ \A p \in 1..Len(listing) : \A k \in 0..(ShardCount - 1) :
                (listing[p] \in Range(call.parts[k])) <=> (k = (p - 1) % ShardCount)
          /\ \A k \in 0..(ShardCount - 1) :
                Cardinality(Range(call.parts[k])) = Len(call.parts[k])
    /\ call.op = "workers" =>
          /\ (call.targets[1] \cap call.targets[2] = {}) =>
                Range(call.files[1]) \cap Range(call.files[2]) = {}
          /\ (call.targets[1] \cup call.targets[2] = 0..(ShardCount - 1)) =>
                Range(call.files[1]) \cup Range(call.files[2]) = Range(listing)

C3_Witness ==
    /\ call.op = "workers"
    /\ Len(listing) > ShardCount
    /\ call.targets[1] \cap call.targets[2] = {}
    /\ Len(call.files[1]) > 1
    /\ Len(call.files[2]) > 1

----------------------------------------------------------------------------
(* C10: two entries with different cosmetic names that use the same        *)
(* frequency-dependent processor with different bands get two distinct     *)
(* persistence names, each containing its own band as "min-max".           *)

C10_BandsNeverCollide ==
    LET b1 == ConfiguredBand(call.params[1])
        b2 == ConfiguredBand(call.params[2])
    IN  (/\ call.op = "names"
         /\ call.processor \in FreqDependentProcessors
         /\ b1 # b2
         /\ b1[1] # NoFreq /\ b1[2] # NoFreq
         /\ b2[1] # NoFreq /\ b2[2] # NoFreq) =>
            /\ call.db_name[1] # call.db_name[2]
            /\ Contains(call.db_name[1], FreqPattern(b1[1], b1[2]))
            /\ Contains(call.db_name[2], FreqPattern(b2[1], b2[2]))

----------------------------------------------------------------------------
(* C2: from an empty store, over F full-length files: the first run ends   *)
(* with F created and F*n rows per index, the second run (no force) with   *)
(* F exists and nothing created, the third run (force) with F created, and *)
(* the row count of the domain is F*n per index at the end of every run.   *)

DomainRows(pt) ==
    LET Mine(r) == r.processing_type = pt
    IN  RowCount(Keep(core, Mine))

C2_ThreeRuns ==
    \A w \in Workers :
        wk[w].pc = "done" =>
            /\ DomainRows(wk[w].pt) =
                  Len(listing) * NChunks * Cardinality(ExpectedIndices(wk[w].pt))
            /\ wk[w].errors = 0
            /\ wk[w].run = 1 => wk[w].created = Len(listing) /\ wk[w].exists = 0
            /\ wk[w].run = 2 => wk[w].created = 0 /\ wk[w].exists = Len(listing)
            /\ wk[w].run = 3 => wk[w].created = Len(listing) /\ wk[w].exists = 0

C2_Witness ==
    /\ wk[1].pc = "done"
    /\ wk[1].pt = "temporal"
    /\ wk[1].run = 3
    /\ wk[1].force
    /\ Len(listing) > 1
    /\ wk[1].created = Len(listing)
    /\ DomainRows("temporal") = Len(listing) * NChunks

----------------------------------------------------------------------------
(* C4: whatever two workers of one domain do to the same files, the rows   *)
(* of a file in a domain are none at all or exactly the batch of one store *)
(* call: one row per (file_id, index_name, chunk_index), chunks 0..n-1 of  *)
(* every index, with the values and start times of that call.              *)

\* the batch one store call writes for the k-th recording
CompleteBatch(k, pt) ==
    LET n == ProcessFile(listing[k], pt).chunks
        data == [nm \in ExpectedIndices(pt) |-> ConstSeq(n, listing[k].dur)]
    IN  SetToBag(RowsToInsert(FileId(k), pt, data, Timestamps(n, ChunkDurationSec)))

C4_RaceLeavesOneBatch ==
    /\ \A k \in 1..Len(listing) : \A pt \in ProcessingTypes :
          \/ FileRows(core, FileId(k), pt) = EmptyBag
          \/ FileRows(core, FileId(k), pt) = CompleteBatch(k, pt)
    /\ \A r \in BagToSet(core) : \A q \in BagToSet(core) : SameKey(r, q) => r = q

C4_Witness ==
    /\ wk[1].pt = wk[2].pt
    /\ ~wk[1].force /\ ~wk[2].force
    /\ \E j \in 1..Len(wk[1].outcomes) :
          /\ j <= Len(wk[2].outcomes)
          /\ wk[1].files[j] = wk[2].files[j]
          /\ wk[1].outcomes[j] = "created"
          /\ wk[2].outcomes[j] = "created"
          /\ FileRows(core, FileId(wk[1].files[j]), wk[1].pt) =
                CompleteBatch(wk[1].files[j], wk[1].pt)
          /\ ProcessFile(listing[wk[1].files[j]], wk[1].pt).chunks > 1

----------------------------------------------------------------------------
(* C5: a worker killed while it has a file in hand (computing, or in       *)
(* store_indices before the commit) leaves the rows of that file as they   *)
(* were when it took the file; and a run that ends normally has the        *)
(* complete batch of every file it reports created or exists.              *)

InHand(w) == wk[w].pc \in {"held", "store", "commit"}

C5_KillLeavesPriorRows ==
    /\ [][\A w \in Workers :
            (InHand(w) /\ wk'[w].pc = "killed") =>
                FileRows(core', FileId(CurFile(w)), wk[w].pt) = wk[w].snap]_vars
    /\ [](\A w \in Workers :
            (wk[w].pc = "done" /\ ~wk[w].dry_run) =>
                \A j \in 1..Len(wk[w].files) :
                    wk[w].outcomes[j] \in {"created", "exists"} =>
                        FileRows(core, FileId(wk[w].files[j]), wk[w].pt) =
                            CompleteBatch(wk[w].files[j], wk[w].pt))

C5_Witness ==
    /\ wk[Solo].pc = "done"
    /\ wk[Solo].killed_at # 0
    /\ ~wk[Solo].force /\ ~wk[Solo].dry_run
    /\ \E j \in 1..Len(wk[Solo].files) :
          /\ wk[Solo].files[j] = wk[Solo].killed_at
          /\ wk[Solo].outcomes[j] = "created"
          /\ FileRows(core, FileId(wk[Solo].killed_at), wk[Solo].pt) =
                CompleteBatch(wk[Solo].killed_at, wk[Solo].pt)

----------------------------------------------------------------------------
(* C6: a run comes to its end, normally or not, only with an outcome for   *)
(* every file of its shard, and a file whose processing raised has the     *)
(* outcome error: a failing file does not stop the run before the later    *)
(* files have their outcomes.                                              *)

C6_FailureDoesNotAbort ==
    \A w \in Workers :
        wk[w].pc \in {"done", "aborted"} =>
            /\ Len(wk[w].outcomes) = Len(wk[w].files)
            /\ \A j \in 1..Len(wk[w].outcomes) :
                  (/\ ProcessFile(listing[wk[w].files[j]], wk[w].pt).kind = "raise"
                   /\ wk[w].outcomes[j] \notin {"exists", "would_create", "locked"}) =>
                      wk[w].outcomes[j] = "error"

----------------------------------------------------------------------------
(* C7: a worker that finds the lock of its file held by another process    *)
(* gives the file the outcome locked and is at the next file in the same   *)
(* step, with its counters, the index rows, the registry and the locks     *)
(* untouched (a kill of the worker aside).                                 *)

HeldByOther(w) ==
    \E l \in locks : l[1] = CurPath(w) /\ l[2] # w

C7_LockedIsSkipped ==
    [][\A w \in Workers :
          (/\ wk[w].pc = "loop" /\ AtFile(w)
           /\ HeldByOther(w)
           /\ wk'[w] # wk[w]
           /\ wk'[w].pc # "killed") =>
              /\ wk'[w] = [wk[w] EXCEPT !.i = @ + 1, !.outcomes = Append(@, "locked")]
              /\ wk'[w].created = wk[w].created
              /\ wk'[w].exists = wk[w].exists
              /\ wk'[w].errors = wk[w].errors
              /\ core' = core
              /\ index_configurations' = index_configurations
              /\ locks' = locks]_vars

C7_Witness ==
    \E w \in Workers :
        /\ wk[w].outcomes # <<>>
        /\ wk[w].outcomes[Len(wk[w].outcomes)] = "locked"
        /\ wk[w].i = Len(wk[w].outcomes) + 1
        /\ \E l \in locks :
              /\ l[1] = FilePath(wk[w].files[Len(wk[w].outcomes)], wk[w].pt)
              /\ l[2] # w
              /\ wk[l[2]].pc \in {"store", "commit"}

----------------------------------------------------------------------------
(* C8: no step of a dry-run invocation, from its start to its end, changes *)
(* the index rows or the configuration registry.                           *)

C8_DryRunLeavesStore ==
    [][\A w \in Workers :
          (wk'[w] # wk[w] /\ wk'[w].dry_run) =>
              /\ core' = core
              /\ index_configurations' = index_configurations]_vars

----------------------------------------------------------------------------
(* C11: for a frequency-dependent processor with a configured band the     *)
(* persistence name is cosmetic_name_min-max, or the cosmetic name itself  *)
(* when it already contains min-max, and resolving the persistence name    *)
(* again returns it unchanged; for any other processor the persistence     *)
(* name is the cosmetic name.                                              *)

C11_NameEncodesBand ==
    call.op = "names" =>
        \A i \in 1..2 :
            LET b == ConfiguredBand(call.params[i])
                nm == call.cosmetic[i]
                pat == FreqPattern(b[1], b[2])
            IN  /\ (/\ call.processor \in FreqDependentProcessors
                    /\ b[1] # NoFreq /\ b[2] # NoFreq) =>
                       /\ call.db_name[i] =
                             IF Contains(nm, pat) THEN nm ELSE nm \o <<"_">> \o pat
                       /\ GenerateDatabaseName(call.db_name[i], call.processor,
                                               call.params[i]) = call.db_name[i]
                /\ call.processor \notin FreqDependentProcessors =>
                       call.db_name[i] = nm

----------------------------------------------------------------------------
(* Temporal processor: the chunk grid of one recording for any sample      *)
(* rate, expected duration and chunk duration. A chunk duration is the     *)
(* fraction <<num, den>> of a second; a recording is its sample count.     *)

MaxRate == 3     \* largest sample rate (samples per second)
MaxExcess == 1   \* seconds of audio beyond expected duration + tolerance

GridChunkDurations == {<<1, 1>>, <<2, 1>>, <<3, 2>>, <<9, 2>>}
GridFileDurations == {4, 900}

\* _setup_from_config: int(sample_rate * chunk_duration_sec)
GridSamplesPerChunk(rate, chunk) == (rate * chunk[1]) \div chunk[2]

\* _setup_from_config: int(file_duration_sec / chunk_duration_sec)
GridNChunks(file_dur, chunk) == (file_dur * chunk[2]) \div chunk[1]

\* abs(len(audio) / sample_rate - file_duration_sec) > tolerance_sec
OutsideToleranceInclusive(samples, rate, file_dur) ==
    Abs(samples - file_dur * rate) >= ToleranceSec * rate
OutsideTolerance(samples, rate, file_dur) ==
    Abs(samples - file_dur * rate) > ToleranceSec * rate

\* process_file on a loaded recording: the skip marker, or
\* actual_chunks = min(n_chunks, len(audio) // samples_per_chunk)
TemporalGrid(samples, rate, file_dur, chunk) ==
    IF OutsideTolerance(samples, rate, file_dur)
    THEN [kind |-> "skipped", chunks |-> 0]
    ELSE [kind |-> "data",
          chunks |-> Min(GridNChunks(file_dur, chunk),
                         samples \div GridSamplesPerChunk(rate, chunk))]

\* a processor configured with (sample_rate, file_duration_sec,
\* chunk_duration_sec) and a recording of that sample rate
InitGrid ==
    /\ audio_files = {}
    /\ listing = <<>>
    /\ core = EmptyBag
    /\ index_configurations = {}
    /\ locks = <<>>
    /\ wk = <<>>
    /\ \E rate \in 1..MaxRate, file_dur \in GridFileDurations,
          chunk \in GridChunkDurations :
          \E samples \in 0..((file_dur + ToleranceSec + MaxExcess) * rate) :
             call = [op |-> "recording", n |-> 0, rate |-> rate, file_dur |-> file_dur,
                     chunk |-> chunk, samples |-> samples]

\* processor.process_file(wav_file), called once or again on the same file
GridProcessFile ==
    LET res == TemporalGrid(call.samples, call.rate, call.file_dur, call.chunk)
    IN  /\ call.op \in {"recording", "grid"}
        /\ call.n < MaxCalls
        /\ call' = [op |-> "grid", n |-> call.n + 1, rate |-> call.rate,
                    file_dur |-> call.file_dur, chunk |-> call.chunk,
                    samples |-> call.samples, kind |-> res.kind, chunks |-> res.chunks,
                    same |-> (call.op = "grid") =>
                                (call.kind = res.kind /\ call.chunks = res.chunks)]
        /\ UNCHANGED <<audio_files, core, index_configurations, locks, listing, wk>>

NextGrid == GridProcessFile

SpecGrid == InitGrid /\ [][NextGrid]_vars

----------------------------------------------------------------------------
(* C12: a recording whose duration differs from the expected duration by   *)
(* exactly the tolerance is accepted and gets values; a recording that is  *)
(* longer than expected + tolerance, by one sample or more, gets the skip  *)
(* marker (process_file returns, it does not raise).                       *)

----------------------------------------------------------------------------
(* C13: an accepted recording gets min(floor(expected / chunk_duration),   *)
(* floor(total_duration / chunk_duration)) chunks, the same number on      *)
(* every call: 200 for a full recording of 900 s in chunks of 4.5 s.       *)

C13_ChunkCount ==
    (call.op = "grid" /\ call.kind = "data") =>
        /\ call.chunks =
              Min((call.file_dur * call.chunk[2]) \div call.chunk[1],
                  (call.samples * call.chunk[2]) \div (call.rate * call.chunk[1]))
        /\ call.same
        /\ (/\ call.file_dur = 900 /\ call.chunk = <<9, 2>>
            /\ call.samples = 900 * call.rate) => call.chunks = 200

----------------------------------------------------------------------------
(* Invocations with a configuration file whose named entries use known or  *)
(* unknown processor identifiers.                                          *)

InitConfig ==
    /\ \E n \in 1..MaxFiles : \E kinds \in [1..n -> FileKinds] :
          listing = [k \in 1..n |-> DiskFile(k, kinds[k])]
    /\ audio_files = {AudioRow(k, listing[k].wav, TRUE) : k \in 1..Len(listing)}
    /\ core = EmptyBag
    /\ index_configurations = {}
    /\ locks = {}
    /\ wk = [w \in Workers |-> IdleWorker]
    /\ \E known \in BOOLEAN : call = [op |-> "run_config", n |-> 0, known |-> known]

SpecConfig == InitConfig /\ [][NextSolo]_vars

----------------------------------------------------------------------------
(* C14: with an unknown processor identifier in the configuration a run    *)
(* stops before it touches a file: no file is ever locked or given an      *)
(* outcome, the run does not end normally over a non-empty shard, and no   *)
(* index row is written.                                                   *)

C14_ConfigErrorBeforeFiles ==
    UnknownProcessor =>
        /\ locks = {}
        /\ core = EmptyBag
        /\ \A w \in Workers :
              /\ wk[w].pc \notin {"held", "store", "commit"}
              /\ wk[w].outcomes = <<>>
              /\ wk[w].pc = "done" => wk[w].files = <<>>

----------------------------------------------------------------------------
(* C15: a recording outside the duration tolerance gets the outcome        *)
(* skipped and is not counted as an error: the error count of a run is the *)
(* number of its files with the outcome error.                             *)

Count(seq, x) == Cardinality({j \in 1..Len(seq) : seq[j] = x})

C15_SkippedIsNotAnError ==
    \A w \in Workers :
        /\ wk[w].errors = Count(wk[w].outcomes, "error")
        /\ \A j \in 1..Len(wk[w].outcomes) :
              (/\ wk[w].pt = "temporal"
               /\ TemporalProcessFile(listing[wk[w].files[j]]).kind = "skipped"
               /\ wk[w].outcomes[j] \notin {"exists", "would_create", "locked"}) =>
                  wk[w].outcomes[j] = "skipped"

----------------------------------------------------------------------------
(* C16: once a recording carries the status flag skipped, no later pass    *)
(* processes it again: no worker reads it and skips it a second time.      *)

Flagged(path) ==
    \E a \in audio_files : a.filepath = path /\ a.processing_status = "skipped"

C16_SkippedIsLeftOut ==
    [][\A w \in Workers :
          (wk[w].pc = "held" /\ Flagged(CurPath(w))) =>
              ~(/\ wk'[w].pc = "loop"
                /\ wk'[w].outcomes = Append(wk[w].outcomes, "skipped"))]_vars

----------------------------------------------------------------------------
(* Re-stores of one index of one recording after the configuration has     *)
(* changed: another chunk count, another chunk duration.                   *)

RestoreDurations == {1, 2, 3}

\* db_manager.store_indices(wav_file, "temporal", {i1: values}, timestamps)
Restore(n, d, v) ==
    StoreIndices(WavPath("a", "x"), "temporal",
                 [nm \in {"i1"} |-> ConstSeq(n, v)], Timestamps(n, d))

NextRestore ==
    \E n \in 1..(MaxChunks + 1), d \in RestoreDurations, v \in Values : Restore(n, d, v)

SpecRestore == InitStore /\ [][NextRestore]_vars

----------------------------------------------------------------------------
(* C17: after any sequence of stores the rows of a (file, index) have the  *)
(* chunk indices 0..N-1 for one N, each once, with start times ascending   *)
(* in chunk index; and the rows of a (file, domain) that were present      *)
(* before a store are not fewer after it.                                  *)

IndexRows(fid, nm) == {r \in BagToSet(core) : r.file_id = fid /\ r.index_name = nm}

C17_ChunksOrdered ==
    /\ \A a \in audio_files : \A nm \in IndexNames :
          LET S == IndexRows(a.id, nm)
          IN  /\ {r.chunk_index : r \in S} = 0..(Cardinality(S) - 1)
              /\ \A r \in S : CopiesIn(r, core) = 1
              /\ \A r \in S : \A q \in S :
                    r.chunk_index < q.chunk_index => r.start_time_sec < q.start_time_sec
    /\ call.op = "store" => call.after >= call.before

----------------------------------------------------------------------------
(* C18: a store call in which the value sequence of some index has another *)
(* length than the timestamp sequence fails with ValueError and leaves     *)
(* every row of the store as it was, the rows of the indices of the same   *)
(* call whose lengths match included; a call without such an index does    *)
(* not fail with ValueError.                                               *)

LengthMismatch(data, ts) == \E nm \in DOMAIN data : Len(data[nm]) # Len(ts)

C18_MismatchWritesNothing ==
    [][(call'.op = "store" /\ call' # call) =>
          /\ LengthMismatch(call'.data, call'.ts) <=> call'.status = "ValueError"
          /\ LengthMismatch(call'.data, call'.ts) => core' = core]_vars

C18_Witness ==
    /\ call.op = "store"
    /\ call.status = "ValueError"
    /\ \E nm \in DOMAIN call.data : Len(call.data[nm]) = Len(call.ts)
    /\ Len(call.ts) > 1
    /\ GetFileId(audio_files, StoreWavPath(call.filepath, call.pt)) # NoId
    /\ core # EmptyBag
    /\ call.before = call.after

----------------------------------------------------------------------------
(* Per-chunk computation of one named index. A feature routine returns a   *)
(* finite number, NaN, an infinity, a tuple whose first element is a       *)
(* finite number, some other object (None, a string), or raises.           *)

RoutineOutcomes == {"finite", "nan", "inf", "tuple", "other", "raise"}

\* temporal _compute_named_index_chunks: values.append(float(value));
\* float() of a tuple or of None raises TypeError
TemporalChunkValue(outcome) ==
    IF outcome \in {"finite", "nan", "inf"} THEN outcome ELSE "raise"

\* spectral _compute_named_index_chunks: a value that is not a number is
\* replaced by its first element (tuple) or by 0.0, then float(value)
SpectralChunkValue(outcome) ==
    IF outcome = "tuple" THEN "finite"
    ELSE IF outcome = "other" THEN "zero"
    ELSE outcome

ChunkValue(pt, outcome) ==
    IF pt = "temporal" THEN TemporalChunkValue(outcome) ELSE SpectralChunkValue(outcome)

\* the loop over the chunks: the first chunk that raises ends it
ComputeNamedIndexChunks(pt, outcomes) ==
    LET vals == [i \in 1..Len(outcomes) |-> ChunkValue(pt, outcomes[i])]
    IN  IF \E i \in 1..Len(vals) : vals[i] = "raise"
        THEN [kind |-> "raise", values |-> <<>>]
        ELSE [kind |-> "data", values |-> vals]

\* a file of 1..MaxChunks chunks and what the routine does on each chunk
InitChunks ==
    /\ audio_files = {}
    /\ listing = <<>>
    /\ core = EmptyBag
    /\ index_configurations = {}
    /\ locks = <<>>
    /\ wk = <<>>
    /\ \E pt \in ProcessingTypes, n \in 1..MaxChunks :
          \E outcomes \in [1..n -> RoutineOutcomes] :
             call = [op |-> "chunks", n |-> 0, pt |-> pt, outcomes |-> outcomes]

ComputeChunks ==
    LET res == ComputeNamedIndexChunks(call.pt, call.outcomes)
    IN  /\ call.op = "chunks"
        /\ call' = [op |-> "computed", n |-> 1, pt |-> call.pt,
                    outcomes |-> call.outcomes, kind |-> res.kind,
                    values |-> res.values]
        /\ UNCHANGED <<audio_files, core, index_configurations, locks, listing, wk>>

NextChunks == ComputeChunks

SpecChunks == InitChunks /\ [][NextChunks]_vars

----------------------------------------------------------------------------
(* C19: whatever the feature routine does on a chunk, the computation of   *)
(* the index is not aborted and yields one finite value per chunk, the     *)
(* fallback 0.0 where the routine raised or returned a non-finite or       *)
(* non-numeric result.                                                     *)

C19_ChunkFallback ==
    call.op = "computed" =>
        /\ call.kind = "data"
        /\ Len(call.values) = Len(call.outcomes)
        /\ \A i \in 1..Len(call.outcomes) :
              /\ call.values[i] \in {"finite", "zero"}
              /\ call.outcomes[i] \in {"nan", "inf", "other", "raise"} =>
                    call.values[i] = "zero"

----------------------------------------------------------------------------
(* C20: when a run has ended normally every file of its shard has exactly  *)
(* one of the outcomes created, exists, skipped, locked, error, and the    *)
(* counts of the summary (created, exists, errors) add up to the number of *)
(* files of the shard.                                                     *)

C20_SummaryCountsEveryFile ==
    \A w \in Workers :
        wk[w].pc = "done" =>
            /\ Len(wk[w].outcomes) = Len(wk[w].files)
            /\ \A j \in 1..Len(wk[w].outcomes) :
                  wk[w].outcomes[j] \in {"created", "exists", "skipped", "locked", "error"}
            /\ wk[w].created + wk[w].exists + wk[w].errors = Len(wk[w].files)

----------------------------------------------------------------------------
(* Two workers of one domain on the same shard of one recording, of any    *)
(* kind, pass after pass without force: every way a per-file section can   *)
(* be left.                                                                *)

InitRetry ==
    /\ \E kind \in FileKinds : listing = <<DiskFile(1, kind)>>
    /\ audio_files = {AudioRow(k, listing[k].wav, TRUE) : k \in 1..Len(listing)}
    /\ core = EmptyBag
    /\ index_configurations = {}
    /\ locks = {}
    /\ \E pt \in ProcessingTypes : wk = [w \in Workers |-> [IdleWorker EXCEPT !.pt = pt]]
    /\ call = NoCall

\* the files of the run of a worker that had the outcome locked
LockedFiles(w) ==
    {wk[w].files[j] : j \in {j \in 1..Len(wk[w].outcomes) : wk[w].outcomes[j] = "locked"}}

\* main() of another pass over the whole listing (locked_before remembers
\* the files the earlier passes of the worker found locked)
StartPass(w, dry_run) ==
    /\ wk[w].run < MaxRuns
    /\ wk[w].pc \in {"idle", "done", "aborted"}
    /\ index_configurations' = StoreIndexConfiguration(index_configurations)
    /\ wk' = [wk EXCEPT ![w] =
                [MainLocals(w, wk[w].pt, {}, FALSE, dry_run) EXCEPT
                    !.locked_before = wk[w].locked_before \cup LockedFiles(w)]]
    /\ UNCHANGED <<audio_files, core, locks, listing, call>>

NextRetry ==
    \E w \in Workers :
        \/ \E dry_run \in BOOLEAN : StartPass(w, dry_run)
        \/ Preload(w)
        \/ LockTimeout(w)
        \/ Acquire(w)
        \/ DecideExists(w)
        \/ DecideDryRun(w)
        \/ ProcessRaises(w)
        \/ ProcessSkipped(w)
        \/ ProcessComputed(w)
        \/ Execute(w)
        \/ StoreRaises(w)
        \/ Commit(w)
        \/ FinishRun(w)

SpecRetry == InitRetry /\ [][NextRetry]_vars

----------------------------------------------------------------------------
(* C21: a lock is held only by a worker that is inside its per-file        *)
(* section on that file, so every way out of the section (exists, created, *)
(* skipped, dry run, an exception) has released it; and a worker that      *)
(* comes to a file no other worker has in hand takes the lock and gives    *)
(* the file an outcome other than locked.                                  *)

InHandOf(w, path) == InHand(w) /\ CurPath(w) = path

C21_LockedIsRetried ==
    /\ [](\A l \in locks : InHandOf(l[2], l[1]))
    /\ [][\A w \in Workers :
            (/\ wk[w].pc = "loop" /\ AtFile(w)
             /\ \A v \in Workers \ {w} : ~InHandOf(v, CurPath(w))
             /\ wk'[w] # wk[w]) =>
                /\ wk'[w].pc = "held"
                /\ <<CurPath(w), w>> \in locks']_vars
    /\ [][\A w \in Workers :
            (InHand(w) /\ wk'[w].pc \in {"loop", "aborted"}) =>
                /\ \A l \in locks' : l[2] # w
                /\ wk'[w].pc = "loop" =>
                      wk'[w].outcomes[Len(wk'[w].outcomes)] # "locked"]_vars

\* a file that was locked in an earlier pass of a worker, held by a worker
\* whose run then ended with an exception, is created in a later pass
C21_Witness ==
    \E w \in Workers :
        /\ wk[w].pc = "done"
        /\ \E j \in 1..Len(wk[w].outcomes) :
              /\ wk[w].files[j] \in wk[w].locked_before
              /\ wk[w].outcomes[j] = "created"
              /\ \A l \in locks : l[1] # FilePath(wk[w].files[j], wk[w].pt)
              /\ \E v \in Workers \ {w} :
                    /\ wk[v].pc = "aborted"
                    /\ wk[v].files[wk[v].i] = wk[w].files[j]
----------------------------------------------------------------------------
(* Stores followed by clear_indices / delete_indices_for_file              *)

\* clear_indices(filepath, processing_type): the file is looked up by the
\* base name of the path as given; None (or an empty string) for an
\* argument leaves its condition out
ClearIndicesResult(table, tbl, filepath, pt) ==
    LET byName == {r \in table : r.filename = Basename(filepath)}
        Stays(r) == \/ filepath # NoPath /\ r.file_id # MinId(byName)
                    \/ pt # NoType /\ r.processing_type # pt
    IN  IF filepath # NoPath /\ byName = {} THEN tbl
        ELSE Keep(tbl, Stays)

\* db_manager.clear_indices(filepath, processing_type)
ClearIndices(filepath, pt) ==
    LET res == ClearIndicesResult(audio_files, core, filepath, pt)
    IN  /\ call.op \in {"store", "clear"}
        /\ core' = res
        /\ call' = [op |-> "clear", n |-> call.n, filepath |-> filepath, pt |-> pt,
                    deleted |-> RowCount(core) - RowCount(res)]
        /\ UNCHANGED <<audio_files, index_configurations, locks, listing, wk>>

NextClear ==
    \/ \E t \in StoreTargets, d \in StoreData : StoreIndices(t[1], t[2], d[1], d[2])
    \/ \E t \in StoreTargets : ClearIndices(t[1], t[2])
    \/ ClearIndices(NoPath, NoType)

SpecClear == InitStore /\ [][NextClear]_vars

----------------------------------------------------------------------------
(* C22: clear_indices(filepath, processing_type) removes exactly the rows  *)
(* that store_indices writes for that path and domain (the rows of the     *)
(* file the path resolves to in store_indices, in that domain) and leaves  *)
(* every other row as it was; without arguments it removes every row.      *)

C22_ClearDeletesFileDomain ==
    [][(call'.op = "clear" /\ call' # call) =>
          LET fid == GetFileId(audio_files,
                               StoreWavPath(call'.filepath, call'.pt))
              Other(r) == ~(r.file_id = fid /\ r.processing_type = call'.pt)
          IN  IF call'.filepath = NoPath THEN core' = EmptyBag
              ELSE core' = Keep(core, Other)]_vars
----------------------------------------------------------------------------
(* Spectral processor: loading a container. A container has the arrays     *)
(* spec (freq_bins x time_bins) and fn (fn_len entries) or lacks them, and *)
(* lacks some set of its companion metadata fields.                        *)

\* REQUIRED_FIELDS of the container format besides spec and fn
MetaFields == {"time_bins", "sample_rate", "n_fft", "hop_length", "n_mels", "db_scale"}

\* process_file up to the chunk loop and into it: np.load, npz_data['spec'],
\* npz_data['fn'] (KeyError when the array is absent); no other field is
\* read and no length is compared. A feature routine that is given fn may
\* or may not raise on an fn of another length than the array has rows.
SpectralLoad(c) ==
    IF ~c.has_spec \/ ~c.has_fn THEN {"raise"}
    ELSE IF c.uses_fn /\ c.fn_len # c.freq_bins THEN {"raise", "data"}
    ELSE {"data"}

InitLoad ==
    /\ audio_files = {}
    /\ listing = <<>>
    /\ core = EmptyBag
    /\ index_configurations = {}
    /\ locks = <<>>
    /\ wk = <<>>
    /\ \E has_spec, has_fn, uses_fn \in BOOLEAN, missing \in SUBSET MetaFields,
          fn_len, freq_bins \in 1..2 :
          call = [op |-> "container", n |-> 0, has_spec |-> has_spec, has_fn |-> has_fn,
                  missing |-> missing, fn_len |-> fn_len, freq_bins |-> freq_bins,
                  uses_fn |-> uses_fn, kind |-> NoType]

\* processor.process_file(npz_file)
LoadContainer ==
    /\ call.op = "container"
    /\ \E kind \in SpectralLoad(call) :
          call' = [call EXCEPT !.op = "loaded", !.n = 1, !.kind = kind]
    /\ UNCHANGED <<audio_files, core, index_configurations, locks, listing, wk>>

SpecLoad == InitLoad /\ [][LoadContainer]_vars

----------------------------------------------------------------------------
(* C23: a container that lacks an array or a required metadata field, or   *)
(* whose frequency vector has another length than the array has frequency  *)
(* bins, makes process_file raise: no value is computed for it.            *)

C23_ContainerValidated ==
    (/\ call.op = "loaded"
     /\ \/ ~call.has_spec \/ ~call.has_fn
        \/ call.missing # {}
        \/ call.fn_len # call.freq_bins) => call.kind = "raise"
----------------------------------------------------------------------------
(* The chunk loops of both processors: the slices they take from a         *)
(* recording (samples) or from a container (time bins).                    *)

MaxBins == 5   \* most time bins of a container

\* start and end of chunk i (counted from 0) of width w
ChunkBounds(i, w) == <<i * w, i * w + w>>

\* _compute_named_index_chunks: the loop over range(n) on an input of len
\* samples or columns; the strict bounds check raises ValueError
ChunkLoop(n, w, len) ==
    IF \E i \in 0..(n - 1) : ChunkBounds(i, w)[2] > len
    THEN [kind |-> "bounds", values |-> 0]
    ELSE [kind |-> "data", values |-> n]

\* a width that is rounded up
PixelsPerChunkCeil(time_bins, n_chunks) == (time_bins + n_chunks - 1) \div n_chunks

\* process_file: self.pixels_per_chunk = time_bins // self.n_chunks
PixelsPerChunk(time_bins, n_chunks) == time_bins \div n_chunks

\* a temporal processor with a recording, or a spectral processor with a
\* container of some number of time bins
InitRanges ==
    \/ InitGrid
    \/ /\ audio_files = {}
       /\ listing = <<>>
       /\ core = EmptyBag
       /\ index_configurations = {}
       /\ locks = <<>>
       /\ wk = <<>>
       /\ \E file_dur \in GridFileDurations, chunk \in GridChunkDurations,
             time_bins \in 0..MaxBins :
             call = [op |-> "container", n |-> 0, file_dur |-> file_dur,
                     chunk |-> chunk, time_bins |-> time_bins]

\* TemporalIndicesProcessor.process_file on the recording
TemporalRanges ==
    LET grid == TemporalGrid(call.samples, call.rate, call.file_dur, call.chunk)
        w == GridSamplesPerChunk(call.rate, call.chunk)
        res == ChunkLoop(grid.chunks, w, call.samples)
    IN  /\ call.op = "recording"
        /\ call' = [op |-> "ranges", n |-> 1, pt |-> "temporal", len |-> call.samples,
                    file_dur |-> call.file_dur, chunk |-> call.chunk, rate |-> call.rate,
                    w |-> w,
                    kind |-> IF grid.kind = "skipped" THEN "skipped" ELSE res.kind,
                    values |-> res.values]
        /\ UNCHANGED <<audio_files, core, index_configurations, locks, listing, wk>>

\* SpectralIndicesProcessor.process_file on the container; with n_chunks = 0
\* (a chunk longer than the file) the division raises ZeroDivisionError
SpectralRanges ==
    LET n_chunks == GridNChunks(call.file_dur, call.chunk)
        w == IF n_chunks = 0 THEN 0 ELSE PixelsPerChunk(call.time_bins, n_chunks)
        res == ChunkLoop(n_chunks, w, call.time_bins)
    IN  /\ call.op = "container"
        /\ call' = [op |-> "ranges", n |-> 1, pt |-> "spectral", len |-> call.time_bins,
                    file_dur |-> call.file_dur, chunk |-> call.chunk, rate |-> 0,
                    w |-> w,
                    kind |-> IF n_chunks = 0 THEN "zero_division" ELSE res.kind,
                    values |-> res.values]
        /\ UNCHANGED <<audio_files, core, index_configurations, locks, listing, wk>>

SpecRanges == InitRanges /\ [][TemporalRanges \/ SpectralRanges]_vars

----------------------------------------------------------------------------
(* C24: the bounds-violation error is never raised, and an accepted input  *)
(* gets n values per index from the chunks [i*w, (i+1)*w), i in 0..n-1,    *)
(* which do not overlap and do not reach beyond the input; w is            *)
(* samples_per_chunk and n the adjusted chunk count (temporal), or w is    *)
(* floor(time_bins / n_chunks) and n is n_chunks (spectral).               *)

C24_ChunksWithinInput ==
    call.op = "ranges" =>
        /\ call.kind # "bounds"
        /\ call.kind = "data" =>
              LET n == call.values
                  w == IF call.pt = "temporal"
                       THEN (call.rate * call.chunk[1]) \div call.chunk[2]
                       ELSE call.len \div n
              IN  /\ n = IF call.pt = "temporal"
                         THEN Min((call.file_dur * call.chunk[2]) \div call.chunk[1],
                                  call.len \div w)
                         ELSE (call.file_dur * call.chunk[2]) \div call.chunk[1]
                  /\ call.w = w
                  /\ \A i \in 0..(n - 1) :
                        /\ ChunkBounds(i, call.w) = <<i * w, (i + 1) * w>>
                        /\ ChunkBounds(i, call.w)[2] <= call.len
                        /\ i > 0 => ChunkBounds(i - 1, call.w)[2] <= ChunkBounds(i, call.w)[1]

C24_Witness ==
    /\ call.op = "ranges"
    /\ call.pt = "spectral"
    /\ call.kind = "data"
    /\ call.values > 1
    /\ call.w > 1
    /\ call.len > call.values * call.w
----------------------------------------------------------------------------
(* Configuration registry: index_configurations as a bag of rows. A        *)
(* configuration is a sequence of named entries [index_name, processor,    *)
(* params, processing_type] in the order of the YAML file.                 *)

\* the row of one entry: config_fragment is json.dumps(..., sort_keys=True),
\* the members in key order whatever the order in the file; config_hash is
\* the SHA-256 prefix of that text, taken as free of collisions
ConfigRow(config_name, e) ==
    LET keys == <<"freq_max", "freq_min">>
        In(k) == k \in DOMAIN e.params
        json == <<e.processing_type, e.processor>> \o
                [i \in 1..Len(SelectSeq(keys, In)) |->
                    <<SelectSeq(keys, In)[i], e.params[SelectSeq(keys, In)[i]]>>]
    IN  [config_name |-> config_name, index_name |-> e.index_name,
         processor_name |-> e.processor, config_fragment |-> json,
         config_hash |-> json]

\* an INSERT into a table without the UNIQUE constraint
RegistryInsertPlain(registry, row) == registry (+) SetToBag({row})

\* INSERT OR IGNORE under UNIQUE(config_name, index_name, config_hash)
InsertOrIgnore(registry, row) ==
    IF \E r \in BagToSet(registry) :
          /\ r.config_name = row.config_name
          /\ r.index_name = row.index_name
          /\ r.config_hash = row.config_hash
    THEN registry
    ELSE registry (+) SetToBag({row})

\* store_index_configuration: the inserts of the entries in one
\* transaction; an exception after k entries (fail_at = k < Len(entries)) or
\* at the commit (fail_at = Len(entries)) rolls the transaction back
StoreIndexConfigurationResult(registry, config_name, entries, fail_at) ==
    LET RECURSIVE InsertEntries(_)
        InsertEntries(k) ==
            IF k = 0 THEN registry
            ELSE InsertOrIgnore(InsertEntries(k - 1), ConfigRow(config_name, entries[k]))
    IN  IF fail_at <= Len(entries) THEN registry
        ELSE InsertEntries(Len(entries))

\* the entries configuration files hold: one index with some processor, with
\* or without a band, and an index name used in both sections
RegistryConfigs ==
    LET Entry(pr, lo, pt) ==
            [index_name |-> "bai", processor |-> pr, processing_type |-> pt,
             params |-> IF lo = 0 THEN <<>>
                        ELSE [k \in {"freq_min", "freq_max"} |->
                                 IF k = "freq_min" THEN lo ELSE 8000]]
    IN  {<<Entry(pr, lo, "spectral")>> :
            pr \in {"bioacoustics_index", "soundscape_index"}, lo \in {0, 500, 2000}}
        \cup {<<Entry("bioacoustics_index", lo, "spectral"),
                Entry("bioacoustics_index", 500, "temporal")>> : lo \in {500, 2000}}

\* DatabaseManager(...).store_index_configuration(config_name, config)
Register(config_name, entries, fail_at) ==
    /\ call.n < MaxCalls + 1
    /\ index_configurations' =
          StoreIndexConfigurationResult(index_configurations, config_name, entries, fail_at)
    /\ call' = [op |-> "register", n |-> call.n + 1, config_name |-> config_name,
                entries |-> entries, failed |-> fail_at <= Len(entries)]
    /\ UNCHANGED <<audio_files, core, locks, listing, wk>>

InitRegistry ==
    /\ audio_files = {}
    /\ listing = <<>>
    /\ core = EmptyBag
    /\ index_configurations = EmptyBag
    /\ locks = <<>>
    /\ wk = <<>>
    /\ call = NoCall

SpecRegistry ==
    InitRegistry /\ [][\E config_name \in {"c1.yaml", "c2.yaml"},
                          entries \in RegistryConfigs, fail_at \in 0..3 :
                          Register(config_name, entries, fail_at)]_vars

----------------------------------------------------------------------------
(* C25: the registry never holds two rows with the same (config_name,      *)
(* index_name, content hash); a registration that fails leaves it          *)
(* unchanged; one that succeeds keeps every row and adds exactly one row   *)
(* for every entry whose key is not there yet (none when the same          *)
(* configuration is registered again, one when an entry has changed        *)
(* parameters).                                                            *)

RegistryKey(r) == <<r.config_name, r.index_name, r.config_hash>>

C25_RegistryIdempotent ==
    /\ [](\A r \in BagToSet(index_configurations) :
            /\ CopiesIn(r, index_configurations) = 1
            /\ \A q \in BagToSet(index_configurations) :
                  RegistryKey(q) = RegistryKey(r) => q = r)
    /\ [][(call'.op = "register" /\ call'.n # call.n) =>
            LET rows == {ConfigRow(call'.config_name, call'.entries[i]) :
                            i \in 1..Len(call'.entries)}
                new == {r \in rows : \A q \in BagToSet(index_configurations) :
                                        RegistryKey(q) # RegistryKey(r)}
            IN  IF call'.failed THEN index_configurations' = index_configurations
                ELSE /\ BagToSet(index_configurations') =
                            BagToSet(index_configurations) \cup rows
                     /\ BagCardinality(index_configurations') =
                            BagCardinality(index_configurations) + Cardinality(new)]_vars

\* the same configuration registered twice and then with a changed band:
\* two rows for the index
C25_Witness ==
    /\ call.op = "register"
    /\ call.n = 3
    /\ ~call.failed
    /\ BagCardinality(index_configurations) = 2
    /\ \A r \in BagToSet(index_configurations) :
          /\ r.config_name = call.config_name
          /\ r.index_name = "bai"
          /\ r.processor_name = "bioacoustics_index"
          /\ r.config_fragment[1] = "spectral"
----------------------------------------------------------------------------
(* C26: when two workers without force have the same file in their first   *)
(* pass, at most one of them computes and stores it: if one has given it   *)
(* the outcome created, the other has given it locked or exists.           *)

C26_NoDuplicateWork ==
    \A w \in Workers : \A v \in Workers \ {w} :
        (/\ wk[w].run = 1 /\ wk[v].run = 1
         /\ ~wk[w].force /\ ~wk[v].force) =>
            \A j \in 1..Len(wk[w].outcomes) : \A i \in 1..Len(wk[v].outcomes) :
                (/\ wk[w].files[j] = wk[v].files[i]
                 /\ wk[w].outcomes[j] = "created") =>
                    wk[v].outcomes[i] \in {"locked", "exists"}
----------------------------------------------------------------------------
(* The exists decision of a worker on a store that earlier runs, under     *)
(* this or an earlier configuration, have written to.                      *)

\* process_*_files: the bulk preload restricted to expected_indices, then
\* indices_exist = len(existing_indices_bulk.get(file, {})) > 0
IndicesExist(table, tbl, filepath, pt, expected) ==
    BulkGet(GetIndicesForFilesBulk(table, tbl, <<filepath>>, pt, expected), filepath) # <<>>

\* a worker without force preloads its shard [filepath] and decides
Decide(filepath, pt, expected) ==
    /\ call.op \in {"store", "decide"}
    /\ call' = [op |-> "decide", n |-> call.n, filepath |-> filepath, pt |-> pt,
                expected |-> expected,
                exists |-> IndicesExist(audio_files, core, filepath, pt, expected)]
    /\ UNCHANGED <<audio_files, core, index_configurations, locks, listing, wk>>

SpecDecide ==
    InitStore /\ [][\/ \E t \in StoreTargets, d \in StoreData :
                         StoreIndices(t[1], t[2], d[1], d[2])
                    \/ \E t \in StoreTargets, expected \in (SUBSET IndexNames) \ {{}} :
                         Decide(t[1], t[2], expected)]_vars

----------------------------------------------------------------------------
(* C27: without force a file is given the outcome exists only if every     *)
(* expected index name has stored values for that file and domain (so a    *)
(* file that lacks the values of an expected index is computed).           *)

C27_ExistsNeedsEveryIndex ==
    (call.op = "decide" /\ call.exists) =>
        \A nm \in call.expected :
            \E r \in BagToSet(core) :
                /\ r.file_id = GetFileId(audio_files, StoreWavPath(call.filepath, call.pt))
                /\ r.processing_type = call.pt
                /\ r.index_name = nm
----------------------------------------------------------------------------
(* C28: a store call of one domain leaves the rows of the other domain as  *)
(* they were, whatever index names the call and the stored rows use.       *)

C28_OtherDomainUntouched ==
    [][(call'.op = "store" /\ call' # call) =>
          LET Other(r) == r.processing_type # call'.pt
          IN  Keep(core', Other) = Keep(core, Other)]_vars
----------------------------------------------------------------------------
(* The band a frequency-dependent feature routine is called with *)

\* _compute_single_named_index: flim of bioacoustics_index, flim_bioPh of
\* soundscape_index
RoutineBand(processor_name, params) ==
    IF processor_name = "bioacoustics_index"
    THEN <<ParamGet(params, "freq_min", 2000), ParamGet(params, "freq_max", 8000)>>
    ELSE <<ParamGet(params, "bioacoustic_freq_min", ParamGet(params, "freq_min", 2000)),
           ParamGet(params, "bioacoustic_freq_max", ParamGet(params, "freq_max", 8000))>>

----------------------------------------------------------------------------
(* C29: the persistence name of an entry with a frequency-dependent        *)
(* processor contains, as "min-max", the band its feature routine is       *)
(* called with, whichever of the band parameters are given, absent or 0.   *)

C29_NameBandIsRoutineBand ==
    (call.op = "names" /\ call.processor \in FreqDependentProcessors) =>
        \A i \in 1..2 :
            LET band == RoutineBand(call.processor, call.params[i])
            IN  Contains(call.db_name[i], FreqPattern(band[1], band[2]))
----------------------------------------------------------------------------
(* C30: whenever a temporal worker is about to call store_indices, the     *)
(* timestamps it passes are i * chunk_duration for the chunks of the file  *)
(* in hand, as many as every value sequence of that file has, whatever     *)
(* files it processed or skipped before: the call does not fail with the   *)
(* length-mismatch error.                                                  *)

C30_TimestampsMatchValues ==
    \A w \in Workers :
        (wk[w].pc = "store" /\ wk[w].pt = "temporal") =>
            LET ts == ChunkTimestamps(wk[w].pt, wk[w].last_chunks)
                n == TemporalProcessFile(listing[CurFile(w)]).chunks
            IN  /\ Len(ts) = n
                /\ \A nm \in DOMAIN ComputedData(w) : Len(ComputedData(w)[nm]) = Len(ts)
                /\ \A i \in 1..Len(ts) : ts[i] = (i - 1) * ChunkDurationSec
                /\ ComputedStore(w).status # "ValueError"

\* a shorter file in hand after a full-length file was stored in the same run
C30_Witness ==
    /\ wk[Solo].pc = "store"
    /\ wk[Solo].pt = "temporal"
    /\ wk[Solo].i > 1
    /\ wk[Solo].chunks < NChunks
    /\ wk[Solo].chunks > 0
    /\ wk[Solo].outcomes[wk[Solo].i - 1] = "created"
    /\ TemporalProcessFile(listing[wk[Solo].files[wk[Solo].i - 1]]).chunks = NChunks
====
